---- MODULE Spec2Model ----
(***************************************************************************)
(* Fraud analysis pipeline of the backend: rule evaluation and scoring     *)
(* (fraud_engine.py), the transaction / alert / rule endpoints (server.py) *)
(* and the two alert sinks (websocket_manager.py, email_service.py).       *)
(*                                                                         *)
(* Scores are decimal fractions.  rule_score, ai_score, weights and rule   *)
(* contributions are counted in thousandths (1.0 = One); total_score is    *)
(* counted in ten-thousandths (0.4 * r + 0.6 * a = (4r + 6a) / 10000), so  *)
(* every product of the code is exact in the model.                        *)
(* An Optional value is a sequence: None is << >>, a value v is << v >>.   *)
(***************************************************************************)
EXTENDS Integers, Sequences, FiniteSets, TLC

\* ------------------------------------------------------------------ bounds
MaxReq == 1        \* create_transaction requests of one run
MaxRules == 1      \* documents the rule store may hold at once
MaxTime == 1       \* hours the wall clock advances during a run
MaxAdmin == 2      \* update_alert / rule administration calls of one run
MaxSeed == 3       \* rules of a rule set handed to calculate_rule_score
MaxSid == 2        \* socket.io connections of one run
MaxSend == 1       \* send_alert_to_user calls of one run

\* ------------------------------------------------------- program constants
One == 1000                 \* the score 1.0, in thousandths
RuleFactor == 4             \* rule_score * 0.4
AiFactor == 6               \* ai_score * 0.6
AlertThreshold == 5000      \* total_score >= 0.5, in ten-thousandths
LocationTenths == 7         \* weight * 0.7
TimeTenths == 6             \* weight * 0.6
UnusualHourEnd == 5         \* hour >= 0 and hour < 5
HoursPerDay == 24
WindowHours == 1            \* timedelta(hours=1)
LocationLimit == 10         \* user_locations[:10]
RuleListLimit == 100        \* to_list(100)
StartHour == 4              \* wall clock hour at which a run starts

None == << >>
Some(v) == << v >>
IsNone(o) == o = << >>

Users == {"u1", "u2"}
Amounts == {100, 6000}
Merchants == {"SHOP", "FRAUD_SHOP"}
Locations == {"", "NYC"}
suspicious_merchants == {"SUSPICIOUS_MERCHANT_X", "FRAUD_SHOP"}

Min(a, b) == IF a <= b THEN a ELSE b

\* --------------------------------------------------------- FraudRule.evaluate
\* The result of a _check_* method: it either raises or returns
\* (violated, score).
Ret(v, s) == [raised |-> FALSE, violated |-> v, score |-> s]
Raise == [raised |-> TRUE, violated |-> FALSE, score |-> 0]

\* amount > None raises TypeError; `and` evaluates the comparison only when
\* the condition is greater_than.
_check_amount(rule, transaction) ==
    IF rule.condition = "greater_than"
    THEN IF IsNone(rule.threshold) THEN Raise
         ELSE IF transaction.amount > rule.threshold[1]
              THEN Ret(TRUE, rule.weight) ELSE Ret(FALSE, 0)
    ELSE Ret(FALSE, 0)

_check_velocity(rule, transaction, context) ==
    IF IsNone(rule.threshold) THEN Raise
    ELSE IF context.recent_transaction_count > rule.threshold[1]
         THEN Ret(TRUE, rule.weight) ELSE Ret(FALSE, 0)

InSeq(x, s) == \E i \in 1..Len(s) : s[i] = x

_check_location(rule, transaction, context) ==
    IF transaction.location # "" /\ ~InSeq(transaction.location, context.user_locations)
    THEN Ret(TRUE, (rule.weight * LocationTenths) \div 10)
    ELSE Ret(FALSE, 0)

_check_merchant(rule, transaction, context) ==
    IF transaction.merchant \in context.suspicious_merchants
    THEN Ret(TRUE, rule.weight) ELSE Ret(FALSE, 0)

\* timestamp.hour of the transaction's timestamp (a count of hours).
HourOf(timestamp) == timestamp % HoursPerDay

_check_time(rule, transaction) ==
    IF HourOf(transaction.timestamp) >= 0 /\ HourOf(transaction.timestamp) < UnusualHourEnd
    THEN Ret(TRUE, (rule.weight * TimeTenths) \div 10)
    ELSE Ret(FALSE, 0)

\* The dispatch on rule_type inside the try block.
Dispatch(rule, transaction, context) ==
    CASE rule.rule_type = "amount" -> _check_amount(rule, transaction)
      [] rule.rule_type = "velocity" -> _check_velocity(rule, transaction, context)
      [] rule.rule_type = "location" -> _check_location(rule, transaction, context)
      [] rule.rule_type = "merchant" -> _check_merchant(rule, transaction, context)
      [] rule.rule_type = "time" -> _check_time(rule, transaction)
      [] OTHER -> Ret(FALSE, 0)

\* Caught without the except clause: the exception leaves evaluate.
CaughtMutant(res) == res

\* except Exception: return False, 0.0
Caught(res) == IF res.raised THEN Ret(FALSE, 0) ELSE res

evaluate(rule, transaction, context) ==
    IF ~rule.active THEN Ret(FALSE, 0)
    ELSE Caught(Dispatch(rule, transaction, context))

\* ------------------------------------------------------- calculate_rule_score
\* db.rules.find({"active": True}).to_list(100)
RECURSIVE SelectActive(_)
SelectActive(rs) ==
    IF rs = << >> THEN << >>
    ELSE IF Head(rs).active THEN << Head(rs) >> \o SelectActive(Tail(rs))
         ELSE SelectActive(Tail(rs))

get_active_rules(rs) == SubSeq(SelectActive(rs), 1, Min(Len(SelectActive(rs)), RuleListLimit))

\* The for loop: total_score and violated_rules after the rules of `rs`.  An
\* exception that left evaluate would leave the loop and the function.
RECURSIVE Accumulate(_, _, _, _)
Accumulate(rs, transaction, context, acc) ==
    IF rs = << >> THEN acc
    ELSE LET res == evaluate(Head(rs), transaction, context)
         IN IF res.raised THEN [acc EXCEPT !.raised = TRUE]
            ELSE IF res.violated
            THEN Accumulate(Tail(rs), transaction, context,
                    [acc EXCEPT !.total_score = acc.total_score + res.score,
                                !.violated_rules = Append(acc.violated_rules, Head(rs).name)])
            ELSE Accumulate(Tail(rs), transaction, context, acc)

\* Normalize without the ceiling.
NormalizeMutant(total) == total

Normalize(total) == Min(total, One)

\* calculate_rule_score over every stored rule, active or not.
RECURSIVE AccumulateMutant(_, _, _, _)
AccumulateMutant(rs, transaction, context, acc) ==
    IF rs = << >> THEN acc
    ELSE LET res == Caught(Dispatch(Head(rs), transaction, context))
         IN IF res.violated
            THEN AccumulateMutant(Tail(rs), transaction, context,
                    [acc EXCEPT !.total_score = acc.total_score + res.score,
                                !.violated_rules = Append(acc.violated_rules, Head(rs).name)])
            ELSE AccumulateMutant(Tail(rs), transaction, context, acc)

calculate_rule_scoreMutant(rs, transaction, context) ==
    LET acc == AccumulateMutant(rs, transaction, context,
                          [raised |-> FALSE, total_score |-> 0, violated_rules |-> << >>])
    IN [raised |-> acc.raised, rule_score |-> Normalize(acc.total_score),
        violated_rules |-> acc.violated_rules]

calculate_rule_score(rs, transaction, context) ==
    LET acc == Accumulate(get_active_rules(rs), transaction, context,
                          [raised |-> FALSE, total_score |-> 0, violated_rules |-> << >>])
    IN [raised |-> acc.raised, rule_score |-> Normalize(acc.total_score),
        violated_rules |-> acc.violated_rules]

\* --------------------------------------------------------- calculate_ai_score
\* What `await chat.send_message(message)` can do: raise (service error,
\* timeout) or return a text.
ModelTexts == {" 0.5 ", "0.499", "1.5", "high", "nan"}
ModelResponses == {[kind |-> "error", text |-> ""], [kind |-> "timeout", text |-> ""]}
                  \cup {[kind |-> "text", text |-> t] : t \in ModelTexts}

\* response.strip()
Strip(text) == IF text = " 0.5 " THEN "0.5" ELSE text

\* float(score_text): None when float() raises ValueError, else the parsed
\* value in thousandths; "nan" parses, to a value that compares false with
\* every number.
ParseFloat(text) ==
    CASE text = "0.5" -> Some([nan |-> FALSE, v |-> 500])
      [] text = "0.499" -> Some([nan |-> FALSE, v |-> 499])
      [] text = "1.5" -> Some([nan |-> FALSE, v |-> 1500])
      [] text = "nan" -> Some([nan |-> TRUE, v |-> 0])
      [] OTHER -> None

\* Python's min(a, b) and max(a, b) on floats: the first argument unless
\* the second compares smaller (larger); a comparison with nan is false.
PyLess(x, y) == ~x.nan /\ ~y.nan /\ x.v < y.v
PyMin(a, b) == IF PyLess(b, a) THEN b ELSE a
PyMax(a, b) == IF PyLess(a, b) THEN b ELSE a
Num(v) == [nan |-> FALSE, v |-> v]

\* max(0.0, min(1.0, score))
Clamp(score) == PyMax(Num(0), PyMin(Num(One), score))

\* The try block of calculate_ai_score: it raises when the call raises or
\* when float() does, and else returns the clamped score.
TryAiScore(response) ==
    IF response.kind # "text" THEN [raised |-> TRUE, failed |-> TRUE, score |-> 0]
    ELSE LET parsed == ParseFloat(Strip(response.text))
         IN IF IsNone(parsed) THEN [raised |-> TRUE, failed |-> TRUE, score |-> 0]
            ELSE [raised |-> FALSE, failed |-> FALSE, score |-> Clamp(parsed[1]).v]

\* AiFallback answering 1.0 for a failed call.
AiFallbackClosedMutant(res) ==
    IF res.raised THEN [raised |-> FALSE, failed |-> TRUE, score |-> One] ELSE res

\* AiFallback without the except clause: the exception leaves the function.
AiFallbackMutant(res) == res

\* except Exception: logger.error(...); return 0.0
AiFallback(res) ==
    IF res.raised THEN [raised |-> FALSE, failed |-> TRUE, score |-> 0] ELSE res

calculate_ai_score(response) == AiFallback(TryAiScore(response))

\* -------------------------------------------------- get_transaction_context
\* count_documents({"user_id": user_id, "timestamp": {"$gte": one_hour_ago}})
CountRecent(txns, user_id, clock) ==
    Cardinality({i \in 1..Len(txns) :
        txns[i].user_id = user_id /\ txns[i].timestamp >= clock - WindowHours})

\* distinct("location", {"user_id": user_id}), in the order of first occurrence
RECURSIVE DistinctLocations(_, _, _)
DistinctLocations(txns, user_id, seen) ==
    IF txns = << >> THEN seen
    ELSE IF Head(txns).user_id = user_id /\ ~InSeq(Head(txns).location, seen)
         THEN DistinctLocations(Tail(txns), user_id, Append(seen, Head(txns).location))
         ELSE DistinctLocations(Tail(txns), user_id, seen)

FirstN(s, n) == SubSeq(s, 1, Min(Len(s), n))

\* ------------------------------------------------------ analyze_transaction
\* TotalScore with the model score subtracted.
TotalScoreMutant(rule_score, ai_score) == rule_score * RuleFactor - ai_score * AiFactor

TotalScore(rule_score, ai_score) == rule_score * RuleFactor + ai_score * AiFactor

Critical == 8000
High == 6000
Medium == 4000
Low == 2000

\* _get_risk_level with a CRITICAL band that excludes its lower bound.
_get_risk_levelMutant(score) ==
    IF score > Critical THEN "CRITICAL"
    ELSE IF score >= High THEN "HIGH"
    ELSE IF score >= Medium THEN "MEDIUM"
    ELSE IF score >= Low THEN "LOW"
    ELSE "SAFE"

_get_risk_level(score) ==
    IF score >= Critical THEN "CRITICAL"
    ELSE IF score >= High THEN "HIGH"
    ELSE IF score >= Medium THEN "MEDIUM"
    ELSE IF score >= Low THEN "LOW"
    ELSE "SAFE"

\* Triggers with a strict comparison.
TriggersMutant(total_score) == total_score > AlertThreshold

\* if analysis["total_score"] >= 0.5
Triggers(total_score) == total_score >= AlertThreshold

\* ------------------------------------------------------------------- state
VARIABLES
    rules,          \* db.rules, in insertion order
    transactions,   \* db.transactions, in insertion order
    alerts,         \* db.alerts, in insertion order
    reqs,           \* the create_transaction requests and where each stands
    now,            \* the wall clock, in hours
    sessions,       \* the users holding a valid session (get_current_user)
    mock_mode,      \* EmailService.mock_mode
    admin,          \* administration calls made so far
    probe,          \* an isolated call of a scoring function and its result
    connected_clients,  \* WebSocketManager.connected_clients: user_id -> session ids
    session_to_user,    \* WebSocketManager.session_to_user: session id -> user_id
    clients,        \* the socket.io connections and where each stands
    sends           \* the send_alert_to_user calls and where each stands

ws == << connected_clients, session_to_user, clients, sends >>

vars == << rules, transactions, alerts, reqs, now, sessions, mock_mode, admin, probe, ws >>

ReqIds == 1..MaxReq

NoTxn == [id |-> 0, user_id |-> "", amount |-> 0, merchant |-> "", location |-> "",
          timestamp |-> 0]

\* A request before create_transaction has run a line of it.  While the
\* handler runs the record holds its local variables; when it ends they are
\* dropped and the record keeps what the request left behind (Ended).
NewReq == [pc |-> "idle", txn |-> NoTxn, stored |-> FALSE,
           recent_transaction_count |-> 0, user_locations |-> << >>,
           rule_score |-> 0, violated_rules |-> << >>,
           ai_score |-> 0, ai_failed |-> FALSE, analysed |-> FALSE,
           total_score |-> 0, risk_level |-> "",
           alert_id |-> 0, broadcasts |-> 0, broadcast_failed |-> FALSE,
           emails |-> 0, email_result |-> "", email_raised |-> FALSE, result |-> ""]

\* The handler has ended: its response, and whether its transaction and its
\* alert were stored.
Ended(q, pc, result) ==
    [NewReq EXCEPT !.pc = pc, !.result = result, !.stored = q.stored,
                   !.alert_id = q.alert_id]

NoProbe == [rules |-> << >>, transaction |-> NoTxn,
            context |-> [recent_transaction_count |-> 0, user_locations |-> << >>,
                         suspicious_merchants |-> suspicious_merchants],
            done |-> FALSE, raised |-> FALSE, rule_score |-> 0, violated_rules |-> << >>,
            call |-> "calculate_rule_score", ai_score |-> 0, total_score |-> 0,
            risk_level |-> ""]

Sids == 1..MaxSid
SendIds == 1..MaxSend

\* A dict with no key.
EmptyDict == [k \in {} |-> {}]

\* A send_alert_to_user call before it has run a line.  While the loop runs
\* the record holds the set iterator: the size of the set when the loop
\* began (si_used), its content then, the session ids already yielded, and
\* whether the set object has since been emptied and deleted from the dict.
NoSend == [pc |-> "idle", user_id |-> "", si_used |-> 0, snapshot |-> {}, visited |-> {},
           unlinked |-> FALSE, sid |-> 0, delivered |-> {}, dropped |-> {}, raised |-> FALSE]

\* WebSocketManager.__init__
NoSockets ==
    /\ connected_clients = EmptyDict
    /\ session_to_user = EmptyDict
    /\ clients = [sid \in Sids |-> "new"]
    /\ sends = [d \in SendIds |-> NoSend]

Init ==
    /\ rules = << >>
    /\ transactions = << >>
    /\ alerts = << >>
    /\ reqs = [r \in ReqIds |-> NewReq]
    /\ now = StartHour
    /\ sessions = {"u1"}
    /\ mock_mode \in BOOLEAN
    /\ admin = 0
    /\ NoSockets
    /\ probe = NoProbe

\* ------------------------------------------------ create_transaction, by await
\* InsertTransaction with the insert's exception swallowed: the handler goes
\* on to the analysis without a stored transaction.
InsertTransactionMutant(r, txn, ok) ==
    IF ok
    THEN /\ transactions' = Append(transactions, txn)
         /\ reqs' = [reqs EXCEPT ![r].txn = txn, ![r].stored = TRUE, ![r].pc = "count"]
    ELSE /\ transactions' = transactions
         /\ reqs' = [reqs EXCEPT ![r].txn = txn, ![r].pc = "count"]

\* Transaction(user_id=..., **transaction_data) and db.transactions.insert_one:
\* the insert either stores the document or raises, and a raise ends the
\* request with an error.
InsertTransaction(r, txn, ok) ==
    IF ok
    THEN /\ transactions' = Append(transactions, txn)
         /\ reqs' = [reqs EXCEPT ![r].txn = txn, ![r].stored = TRUE, ![r].pc = "count"]
    ELSE /\ transactions' = transactions
         /\ reqs' = [reqs EXCEPT ![r] = Ended(reqs[r], "failed", "error")]

\* TransactionCreate bodies sent to POST /transactions.
TransactionCreates ==
    { [amount |-> 6000, merchant |-> "SHOP", location |-> "NYC"],
      [amount |-> 100, merchant |-> "FRAUD_SHOP", location |-> "LA"],
      [amount |-> 100, merchant |-> "SHOP", location |-> ""] }

create_transaction(r) ==
    /\ reqs[r].pc = "idle"
    /\ \A q \in ReqIds : q < r => reqs[q].pc # "idle"
    /\ \E u \in sessions, transaction_data \in TransactionCreates, ok \in BOOLEAN :
         InsertTransaction(r, [id |-> r, user_id |-> u, amount |-> transaction_data.amount,
                               merchant |-> transaction_data.merchant,
                               location |-> transaction_data.location, timestamp |-> now], ok)
    /\ UNCHANGED << rules, alerts, now, sessions, mock_mode, admin, probe, ws >>

\* get_transaction_context: the count_documents query
ContextCount(r) ==
    /\ reqs[r].pc = "count"
    /\ reqs' = [reqs EXCEPT
         ![r].recent_transaction_count = CountRecent(transactions, reqs[r].txn.user_id, now),
         ![r].pc = "distinct"]
    /\ UNCHANGED << rules, transactions, alerts, now, sessions, mock_mode, admin, probe, ws >>

\* get_transaction_context: the distinct query and the returned context
ContextLocations(r) ==
    /\ reqs[r].pc = "distinct"
    /\ reqs' = [reqs EXCEPT
         ![r].user_locations =
             FirstN(DistinctLocations(transactions, reqs[r].txn.user_id, << >>), LocationLimit),
         ![r].pc = "rules"]
    /\ UNCHANGED << rules, transactions, alerts, now, sessions, mock_mode, admin, probe, ws >>

ContextOf(q) == [recent_transaction_count |-> q.recent_transaction_count,
                 user_locations |-> q.user_locations,
                 suspicious_merchants |-> suspicious_merchants]

\* calculate_rule_score on the rule store as it is when the query runs; an
\* exception leaving it would leave analyze_transaction and the handler.
RuleScore(r) ==
    /\ reqs[r].pc = "rules"
    /\ LET out == calculate_rule_score(rules, reqs[r].txn, ContextOf(reqs[r]))
       IN reqs' = [reqs EXCEPT ![r] =
                     IF out.raised THEN Ended(reqs[r], "failed", "error")
                     ELSE [reqs[r] EXCEPT !.rule_score = out.rule_score,
                                          !.violated_rules = out.violated_rules,
                                          !.pc = "ai"]]
    /\ UNCHANGED << rules, transactions, alerts, now, sessions, mock_mode, admin, probe, ws >>

\* What create_transaction does with the analysis, up to the next await: an
\* Alert is built and its insert started, or the transaction is returned.
AfterAnalysis(q) ==
    IF Triggers(q.total_score) THEN [q EXCEPT !.pc = "alert_insert"]
    ELSE [q EXCEPT !.pc = "respond"]

\* calculate_ai_score, then the rest of analyze_transaction: the analysis is
\* returned and the context, a local of analyze_transaction, is dropped.
AiScore(r) ==
    /\ reqs[r].pc = "ai"
    /\ \E response \in ModelResponses :
         LET ai == calculate_ai_score(response)
             total == TotalScore(reqs[r].rule_score, ai.score)
         IN reqs' = [reqs EXCEPT ![r] =
                      IF ai.raised THEN Ended(reqs[r], "failed", "error")
                      ELSE AfterAnalysis(
                        [reqs[r] EXCEPT !.ai_score = ai.score, !.ai_failed = ai.failed,
                                        !.analysed = TRUE, !.total_score = total,
                                        !.risk_level = _get_risk_level(total),
                                        !.recent_transaction_count = 0,
                                        !.user_locations = << >>])]
    /\ UNCHANGED << rules, transactions, alerts, now, sessions, mock_mode, admin, probe, ws >>

\* NewAlert referencing the alert's own id where the transaction's belongs.
NewAlertMutant(q, id) ==
    [id |-> id, transaction_id |-> id + MaxReq, user_id |-> q.txn.user_id,
     total_score |-> q.total_score, rule_score |-> q.rule_score, ai_score |-> q.ai_score,
     risk_level |-> q.risk_level, violated_rules |-> q.violated_rules,
     status |-> "pending", resolved_at |-> None, notes |-> None]

\* Alert(...) as create_transaction fills it
NewAlert(q, id) ==
    [id |-> id, transaction_id |-> q.txn.id, user_id |-> q.txn.user_id,
     total_score |-> q.total_score, rule_score |-> q.rule_score, ai_score |-> q.ai_score,
     risk_level |-> q.risk_level, violated_rules |-> q.violated_rules,
     status |-> "pending", resolved_at |-> None, notes |-> None]

\* What follows a raise of db.alerts.insert_one: create_transaction has no
\* handler, the request ends with the error.
AlertInsertRaised(q) == Ended(q, "failed", "error")

\* db.alerts.insert_one(alert_dict)
AlertInsert(r) ==
    /\ reqs[r].pc = "alert_insert"
    /\ \E ok \in BOOLEAN :
         IF ok
         THEN /\ alerts' = Append(alerts, NewAlert(reqs[r], Len(alerts) + 1))
              /\ reqs' = [reqs EXCEPT ![r].alert_id = Len(alerts) + 1, ![r].pc = "broadcast"]
         ELSE /\ alerts' = alerts
              /\ reqs' = [reqs EXCEPT ![r] = AlertInsertRaised(reqs[r])]
    /\ UNCHANGED << rules, transactions, now, sessions, mock_mode, admin, probe, ws >>

\* broadcast_alert without its try / except: a raise of sio.emit leaves the
\* handler.
broadcast_alertMutant(q, emit_raises) ==
    IF emit_raises
    THEN Ended([q EXCEPT !.broadcasts = q.broadcasts + 1, !.broadcast_failed = TRUE],
               "failed", "error")
    ELSE [q EXCEPT !.broadcasts = q.broadcasts + 1, !.pc = "email"]

\* WebSocketManager.broadcast_alert: sio.emit inside try / except Exception
broadcast_alert(q, emit_raises) ==
    [q EXCEPT !.broadcasts = q.broadcasts + 1, !.broadcast_failed = emit_raises,
              !.pc = "email"]

Broadcast(r) ==
    /\ reqs[r].pc = "broadcast"
    /\ \E emit_raises \in BOOLEAN : reqs' = [reqs EXCEPT ![r] = broadcast_alert(reqs[r], emit_raises)]
    /\ UNCHANGED << rules, transactions, alerts, now, sessions, mock_mode, admin, probe, ws >>

\* alert_data: the stored alert's fields the sinks read, with the
\* transaction's display fields merged in
AlertData(q) ==
    [alert_id |-> q.alert_id, transaction_id |-> q.txn.id, user_id |-> q.txn.user_id,
     total_score |-> q.total_score, rule_score |-> q.rule_score, ai_score |-> q.ai_score,
     risk_level |-> q.risk_level, violated_rules |-> q.violated_rules,
     amount |-> q.txn.amount, merchant |-> q.txn.merchant, location |-> q.txn.location]

RiskLevels == {"CRITICAL", "HIGH", "MEDIUM", "LOW", "SAFE"}

\* The f-string of send_fraud_alert formats: risk_level has .lower(), the
\* scores and the amount take :.2f, violated_rules joins as strings.
Formats(alert_data) ==
    /\ alert_data.risk_level \in RiskLevels
    /\ alert_data.total_score \in Int /\ alert_data.rule_score \in Int
    /\ alert_data.ai_score \in Int /\ alert_data.amount \in Int
    /\ \A i \in 1..Len(alert_data.violated_rules) : alert_data.violated_rules[i] \in STRING

\* What sg.send(message) can do in live mode.
SendOutcomes == {"202", "other_status", "raises"}

\* send_fraud_alert without its try / except: a raise of sg.send leaves the
\* handler.
send_fraud_alertMutant(q, alert_data, mock, outcome) ==
    IF ~mock /\ outcome = "raises"
    THEN Ended([q EXCEPT !.emails = q.emails + 1, !.email_raised = TRUE], "failed", "error")
    ELSE [q EXCEPT !.emails = q.emails + 1,
                   !.email_result = IF mock \/ outcome = "202" THEN "True" ELSE "False",
                   !.pc = "respond"]

\* EmailService.send_fraud_alert: the body is formatted from the payload
\* outside any handler, then mock mode returns True and live mode sends
\* inside try / except Exception and returns whether the status was 202.
send_fraud_alert(q, alert_data, mock, outcome) ==
    IF ~Formats(alert_data)
    THEN Ended([q EXCEPT !.emails = q.emails + 1, !.email_raised = TRUE], "failed", "error")
    ELSE [q EXCEPT !.emails = q.emails + 1,
                   !.email_raised = (~mock /\ outcome = "raises"),
                   !.email_result = IF mock \/ outcome = "202" THEN "True" ELSE "False",
                   !.pc = "respond"]

Email(r) ==
    /\ reqs[r].pc = "email"
    /\ \E outcome \in SendOutcomes :
         reqs' = [reqs EXCEPT ![r] = send_fraud_alert(reqs[r], AlertData(reqs[r]), mock_mode, outcome)]
    /\ UNCHANGED << rules, transactions, alerts, now, sessions, mock_mode, admin, probe, ws >>

\* return transaction
Respond(r) ==
    /\ reqs[r].pc = "respond"
    /\ reqs' = [reqs EXCEPT ![r] = Ended(reqs[r], "done", "returned")]
    /\ UNCHANGED << rules, transactions, alerts, now, sessions, mock_mode, admin, probe, ws >>

\* ------------------------------------------------------------- update_alert
\* AlertUpdate bodies sent to PATCH /alerts/{id}.  status is Optional[str]:
\* any string is accepted.
StatusInputs == {"pending", "investigating", "resolved", "false_positive", "escalated"}
AlertUpdates ==
    {[status |-> Some(st), notes |-> None] : st \in StatusInputs}
    \cup {[status |-> None, notes |-> Some("checked")],
          [status |-> Some("resolved"), notes |-> Some("checked")],
          [status |-> None, notes |-> None]}

Resolving(status) == status \in {Some("resolved"), Some("false_positive")}

\* {"$set": update_dict} on one alert document: the fields that are not None,
\* and resolved_at when the new status is resolved or false_positive.
ApplyAlertUpdate(alert, status, notes) ==
    [alert EXCEPT
        !.status = IF IsNone(status) THEN alert.status ELSE status[1],
        !.notes = IF IsNone(notes) THEN alert.notes ELSE notes,
        !.resolved_at = IF Resolving(status) THEN Some(now) ELSE alert.resolved_at]

\* A call whose alert does not exist answers 404, and one with neither field
\* set sends an empty $set, which the store rejects: neither changes a store.
update_alert(alert_id, status, notes) ==
    /\ admin < MaxAdmin
    /\ alert_id \in 1..Len(alerts)
    /\ ~(IsNone(status) /\ IsNone(notes))
    /\ alerts' = [alerts EXCEPT ![alert_id] = ApplyAlertUpdate(alerts[alert_id], status, notes)]
    /\ admin' = admin + 1
    /\ UNCHANGED << rules, transactions, reqs, now, sessions, mock_mode, probe, ws >>

UpdateAlert ==
    \E alert_id \in 1..Len(alerts), update_data \in AlertUpdates :
        update_alert(alert_id, update_data.status, update_data.notes)

\* ----------------------------------------------------------- rule endpoints
\* RuleCreate bodies sent to POST /rules.
RuleCreates ==
    { [name |-> "High Amount", rule_type |-> "amount", condition |-> "greater_than",
       threshold |-> Some(5000), weight |-> 500],
      [name |-> "New Location", rule_type |-> "location", condition |-> "equals",
       threshold |-> Some(0), weight |-> 1000] }

\* Rule(**rule_data.model_dump()): active by default.  A rule document is
\* known by its place in the store; its uuid4 id is not kept.
NewRule(rule_data) ==
    [name |-> rule_data.name, rule_type |-> rule_data.rule_type,
     condition |-> rule_data.condition, threshold |-> rule_data.threshold,
     weight |-> rule_data.weight, active |-> TRUE]

create_rule(rule_data) ==
    /\ admin < MaxAdmin
    /\ Len(rules) < MaxRules
    /\ rules' = Append(rules, NewRule(rule_data))
    /\ admin' = admin + 1
    /\ UNCHANGED << transactions, alerts, reqs, now, sessions, mock_mode, probe, ws >>

CreateRule == \E rule_data \in RuleCreates : create_rule(rule_data)

\* RuleUpdate bodies sent to PATCH /rules/{id}: the fields that are not None.
RuleUpdates == {[active |-> Some(FALSE), weight |-> None],
                [active |-> Some(TRUE), weight |-> Some(1000)]}

ApplyRuleUpdate(rule, update_data) ==
    [rule EXCEPT
        !.active = IF IsNone(update_data.active) THEN rule.active ELSE update_data.active[1],
        !.weight = IF IsNone(update_data.weight) THEN rule.weight ELSE update_data.weight[1]]

update_rule(i, update_data) ==
    /\ admin < MaxAdmin
    /\ i \in 1..Len(rules)
    /\ rules' = [rules EXCEPT ![i] = ApplyRuleUpdate(rules[i], update_data)]
    /\ admin' = admin + 1
    /\ UNCHANGED << transactions, alerts, reqs, now, sessions, mock_mode, probe, ws >>

UpdateRule == \E i \in 1..Len(rules), update_data \in RuleUpdates : update_rule(i, update_data)

Remove(s, i) == SubSeq(s, 1, i - 1) \o SubSeq(s, i + 1, Len(s))

\* db.rules.delete_one({"id": rule_id})
delete_rule(i) ==
    /\ admin < MaxAdmin
    /\ i \in 1..Len(rules)
    /\ rules' = Remove(rules, i)
    /\ admin' = admin + 1
    /\ UNCHANGED << transactions, alerts, reqs, now, sessions, mock_mode, probe, ws >>

DeleteRule == \E i \in 1..Len(rules) : delete_rule(i)

\* The wall clock (datetime.now) moves on.
Tick ==
    /\ now < StartHour + MaxTime
    /\ now' = now + 1
    /\ UNCHANGED << rules, transactions, alerts, reqs, sessions, mock_mode, admin, probe, ws >>

Step(r) ==
    \/ create_transaction(r)
    \/ ContextCount(r)
    \/ ContextLocations(r)
    \/ RuleScore(r)
    \/ AiScore(r)
    \/ AlertInsert(r)
    \/ Broadcast(r)
    \/ Email(r)
    \/ Respond(r)

Next ==
    \/ \E r \in ReqIds : Step(r)
    \/ UpdateAlert
    \/ CreateRule
    \/ UpdateRule
    \/ DeleteRule

Spec == Init /\ [][Next]_vars

\* ------------------------------------- requests of two users under the clock
\* A transaction an earlier run left in the store, an hour before this one
\* starts.
StoredBefore == [id |-> 0, user_id |-> "u1", amount |-> 100, merchant |-> "SHOP",
                 location |-> "NYC", timestamp |-> StartHour - WindowHours]

ClockInit ==
    /\ rules = << >>
    /\ transactions \in {<< >>, << StoredBefore >>}
    /\ alerts = << >>
    /\ reqs = [r \in ReqIds |-> NewReq]
    /\ now = StartHour
    /\ sessions = Users
    /\ mock_mode = TRUE
    /\ admin = 0
    /\ NoSockets
    /\ probe = NoProbe

ClockNext ==
    \/ \E r \in ReqIds : Step(r)
    \/ CreateRule
    \/ Tick

ClockSpec == ClockInit /\ [][ClockNext]_vars

\* ----------------------------------- calculate_rule_score on seeded rule sets
\* Rule documents of a seeded store: the three default rules of seed_rules.py
\* and documents an administrator may have written, among them one of an
\* unknown type and two that lack the threshold their type compares with.
RuleDoc(name, rule_type, condition, threshold, weight, active) ==
    [name |-> name, rule_type |-> rule_type, condition |-> condition,
     threshold |-> threshold, weight |-> weight, active |-> active]

default_rules ==
    { RuleDoc("High Amount Transaction", "amount", "greater_than", Some(5000), 700, TRUE),
      RuleDoc("Transaction Velocity Check", "velocity", "greater_than", Some(5), 600, TRUE),
      RuleDoc("Unusual Hours Transaction", "time", "equals", Some(1), 400, TRUE) }

RulePool ==
    default_rules \cup
    { RuleDoc("New Location", "location", "equals", Some(0), 1000, TRUE),
      RuleDoc("Suspicious Merchant", "merchant", "equals", Some(0), 500, TRUE),
      RuleDoc("Device Check", "device", "equals", None, 1000, TRUE),
      RuleDoc("Amount No Threshold", "amount", "greater_than", None, 900, TRUE),
      RuleDoc("Velocity No Threshold", "velocity", "greater_than", None, 800, TRUE),
      RuleDoc("Retired Amount", "amount", "greater_than", Some(50), 700, FALSE) }

Injective(f) == \A i, j \in DOMAIN f : f[i] = f[j] => i = j

RuleStores ==
    UNION { {rs \in [1..n -> RulePool] : Injective(rs)} : n \in 0..MaxSeed }

ProbeTransactions ==
    { [id |-> 1, user_id |-> "u1", amount |-> a, merchant |-> m, location |-> l,
       timestamp |-> t] :
      a \in Amounts, m \in Merchants, l \in Locations, t \in {StartHour, StartHour + 1} }

ProbeContexts ==
    { [recent_transaction_count |-> c, user_locations |-> ls,
       suspicious_merchants |-> suspicious_merchants] :
      c \in {1, 6}, ls \in {<< >>, << "NYC" >>} }

ProbeInit ==
    /\ rules = << >>
    /\ transactions = << >>
    /\ alerts = << >>
    /\ reqs = [r \in ReqIds |-> NewReq]
    /\ now = StartHour
    /\ sessions = {"u1"}
    /\ mock_mode = TRUE
    /\ admin = 0
    /\ NoSockets
    /\ \E rs \in RuleStores, t \in ProbeTransactions, c \in ProbeContexts :
         probe = [NoProbe EXCEPT !.rules = rs, !.transaction = t, !.context = c]

\* rule_score, violated_rules = await self.calculate_rule_score(transaction, context)
ProbeRuleScore ==
    /\ ~probe.done
    /\ LET out == calculate_rule_score(probe.rules, probe.transaction, probe.context)
       IN probe' = [probe EXCEPT !.done = TRUE, !.raised = out.raised,
                                 !.rule_score = out.rule_score,
                                 !.violated_rules = out.violated_rules]
    /\ UNCHANGED << rules, transactions, alerts, reqs, now, sessions, mock_mode, admin, ws >>

ProbeNext == ProbeRuleScore

ProbeSpec == ProbeInit /\ [][ProbeNext]_vars

\* ------------------------- the scoring lines of analyze_transaction, isolated
\* Scores handed to the scoring lines: rule_score and ai_score are both in
\* [0, 1] when they reach them, in thousandths.
ScoreGrid == {k * (One \div 20) : k \in 0..20} \cup {1, 333, 499, 501, 999}

\* Scores handed to _get_risk_level: every ten-thousandth of [0, 1].
TotalScores == 0..(One * (RuleFactor + AiFactor))

ScoreInit ==
    /\ rules = << >>
    /\ transactions = << >>
    /\ alerts = << >>
    /\ reqs = [r \in ReqIds |-> NewReq]
    /\ now = StartHour
    /\ sessions = {"u1"}
    /\ mock_mode = TRUE
    /\ admin = 0
    /\ NoSockets
    /\ \/ \E rule_score \in ScoreGrid, ai_score \in ScoreGrid :
            probe = [NoProbe EXCEPT !.call = "analyze_transaction",
                                    !.rule_score = rule_score, !.ai_score = ai_score]
       \/ \E score \in TotalScores :
            probe = [NoProbe EXCEPT !.call = "_get_risk_level", !.total_score = score]

\* total_score = (rule_score * 0.4) + (ai_score * 0.6), and the returned
\* risk_level
ProbeAnalyze ==
    /\ probe.call = "analyze_transaction" /\ ~probe.done
    /\ LET total == TotalScore(probe.rule_score, probe.ai_score)
       IN probe' = [probe EXCEPT !.done = TRUE, !.total_score = total,
                                 !.risk_level = _get_risk_level(total)]
    /\ UNCHANGED << rules, transactions, alerts, reqs, now, sessions, mock_mode, admin, ws >>

\* self._get_risk_level(score)
ProbeRiskLevel ==
    /\ probe.call = "_get_risk_level" /\ ~probe.done
    /\ probe' = [probe EXCEPT !.done = TRUE,
                              !.risk_level = _get_risk_level(probe.total_score)]
    /\ UNCHANGED << rules, transactions, alerts, reqs, now, sessions, mock_mode, admin, ws >>

ScoreNext == ProbeAnalyze \/ ProbeRiskLevel

ScoreSpec == ScoreInit /\ [][ScoreNext]_vars

\* ------------------------------------------------------- WebSocketManager
Keys(dict) == DOMAIN dict

\* dict.pop(key, None) and del dict[key]
Without(dict, key) == [k \in Keys(dict) \ {key} |-> dict[k]]

\* The registration lines shared by connect and authenticate:
\*   if user_id not in self.connected_clients: self.connected_clients[user_id] = set()
\*   self.connected_clients[user_id].add(sid); self.session_to_user[sid] = user_id
Register(sid, user_id) ==
    /\ connected_clients' =
          [u \in Keys(connected_clients) \cup {user_id} |->
              IF u = user_id
              THEN (IF u \in Keys(connected_clients) THEN connected_clients[u] ELSE {}) \cup {sid}
              ELSE connected_clients[u]]
    /\ session_to_user' =
          [k \in Keys(session_to_user) \cup {sid} |->
              IF k = sid THEN user_id ELSE session_to_user[k]]

\* The user_id a client sends: auth.get('user_id') / data.get('user_id')
UserIds == {None} \cup {Some(u) : u \in Users}

\* connect(sid, environ, auth): socket.io calls it once, for a new session id
connect(sid, user_id) ==
    /\ clients[sid] = "new"
    /\ clients' = [clients EXCEPT ![sid] = "open"]
    /\ IF IsNone(user_id)
       THEN UNCHANGED << connected_clients, session_to_user >>
       ELSE Register(sid, user_id[1])
    /\ UNCHANGED << rules, transactions, alerts, reqs, now, sessions, mock_mode, admin,
                    probe, sends >>

\* authenticate(sid, data): an event of a connected client; the emit of
\* 'authenticated' follows the two updates
authenticate(sid, user_id) ==
    /\ clients[sid] = "open"
    /\ IF IsNone(user_id)
       THEN UNCHANGED << connected_clients, session_to_user >>
       ELSE Register(sid, user_id[1])
    /\ UNCHANGED << rules, transactions, alerts, reqs, now, sessions, mock_mode, admin,
                    probe, clients, sends >>

\* A loop over the set of `user_id` that is between two steps of its iterator.
Iterating(q, user_id) == q.pc = "emit" /\ q.user_id = user_id /\ ~q.unlinked

\* disconnect(sid): the session's user is popped; the session id is discarded
\* from that user's set, and the set is deleted when it is left empty.  A loop
\* that iterates the deleted set keeps the emptied object.
disconnect(sid) ==
    /\ clients[sid] = "open"
    /\ clients' = [clients EXCEPT ![sid] = "closed"]
    /\ session_to_user' = Without(session_to_user, sid)
    /\ IF sid \in Keys(session_to_user) /\ session_to_user[sid] \in Keys(connected_clients)
       THEN LET user_id == session_to_user[sid]
                left == connected_clients[user_id] \ {sid}
            IN IF left = {}
               THEN /\ connected_clients' = Without(connected_clients, user_id)
                    /\ sends' = [d \in SendIds |->
                                   IF Iterating(sends[d], user_id)
                                   THEN [sends[d] EXCEPT !.unlinked = TRUE] ELSE sends[d]]
               ELSE /\ connected_clients' = [connected_clients EXCEPT ![user_id] = left]
                    /\ UNCHANGED sends
       ELSE UNCHANGED << connected_clients, sends >>
    /\ UNCHANGED << rules, transactions, alerts, reqs, now, sessions, mock_mode, admin, probe >>

\* The call has ended: the iterator is dropped, what was delivered stays.
SendEnded(q, pc, raised) ==
    [NoSend EXCEPT !.pc = pc, !.user_id = q.user_id, !.delivered = q.delivered,
                   !.dropped = q.dropped, !.raised = raised]

\* The set object the loop of `q` iterates, as it is now.
IteratedSet(q) == IF q.unlinked THEN {} ELSE connected_clients[q.user_id]

\* One step of the set iterator at the head of the for loop.  The iterator
\* raises RuntimeError when the size of the set differs from the size it
\* had when the loop began; the for statement is outside the try block.  On
\* an unchanged set it yields each member once.  On a set of the same size
\* with other members it yields members not yet yielded in hash-table order,
\* so it may pass over some of them.
IterNext(q) ==
    LET obj == IteratedSet(q)
    IN IF Cardinality(obj) # q.si_used
       THEN { SendEnded(q, "failed", TRUE) }
       ELSE { [q EXCEPT !.sid = x, !.visited = q.visited \cup {x}, !.pc = "emit"] :
                  x \in obj \ q.visited }
            \cup (IF obj \ q.visited = {} \/ obj # q.snapshot
                  THEN { SendEnded(q, "done", FALSE) } ELSE {})

\* send_alert_to_user up to its first await: the membership test, the set
\* iterator and its first step.
send_alert_to_user(d, user_id) ==
    /\ sends[d].pc = "idle"
    /\ \A e \in SendIds : e < d => sends[e].pc # "idle"
    /\ IF user_id \notin Keys(connected_clients)
       THEN sends' = [sends EXCEPT ![d] = SendEnded([NoSend EXCEPT !.user_id = user_id],
                                                    "done", FALSE)]
       ELSE \E q \in IterNext([NoSend EXCEPT
                                  !.user_id = user_id,
                                  !.si_used = Cardinality(connected_clients[user_id]),
                                  !.snapshot = connected_clients[user_id]]) :
                sends' = [sends EXCEPT ![d] = q]
    /\ UNCHANGED << rules, transactions, alerts, reqs, now, sessions, mock_mode, admin,
                    probe, connected_clients, session_to_user, clients >>

\* await self.sio.emit('alert:new', alert_data, to=sid) inside try / except:
\* the message reaches an open session unless the emit raises, and is
\* dropped for a closed one.
Emitted(q, emit_raises) ==
    IF clients[q.sid] = "open"
    THEN IF emit_raises THEN q ELSE [q EXCEPT !.delivered = q.delivered \cup {q.sid}]
    ELSE [q EXCEPT !.dropped = q.dropped \cup {q.sid}]

\* The emit returns and the loop takes its next step.
SendEmit(d) ==
    /\ sends[d].pc = "emit"
    /\ \E emit_raises \in BOOLEAN :
         \E q \in IterNext(Emitted(sends[d], emit_raises)) :
            sends' = [sends EXCEPT ![d] = q]
    /\ UNCHANGED << rules, transactions, alerts, reqs, now, sessions, mock_mode, admin,
                    probe, connected_clients, session_to_user, clients >>

SocketInit == Init

SocketNext ==
    \/ \E sid \in Sids, user_id \in UserIds : connect(sid, user_id)
    \/ \E sid \in Sids, user_id \in UserIds : authenticate(sid, user_id)
    \/ \E sid \in Sids : disconnect(sid)
    \/ \E d \in SendIds, user_id \in Users : send_alert_to_user(d, user_id)
    \/ \E d \in SendIds : SendEmit(d)

SocketSpec == SocketInit /\ [][SocketNext]_vars

\* ================================================================== claims
InFlight(q) == q.pc \in {"count", "distinct", "rules", "ai", "alert_insert",
                         "broadcast", "email", "respond"}
AlertIds == 1..Len(alerts)
AlertsOf(transaction_id) == {i \in AlertIds : alerts[i].transaction_id = transaction_id}
ResolvedStatuses == {"resolved", "false_positive"}

\* C1: every stored alert has resolved_at set if and only if its status is
\* resolved or false_positive.
C1_ResolvedAtIffResolved ==
    \A i \in AlertIds : ~IsNone(alerts[i].resolved_at) <=> alerts[i].status \in ResolvedStatuses

C3_StoreInv ==
    \A r \in ReqIds :
        /\ Cardinality(AlertsOf(r)) = IF reqs[r].alert_id # 0 THEN 1 ELSE 0
        /\ (reqs[r].pc = "respond" /\ reqs[r].total_score >= AlertThreshold)
              => Cardinality(AlertsOf(r)) = 1

C3_StoreStep ==
    /\ Len(alerts') >= Len(alerts)
    /\ \A i \in 1..Len(alerts) :
         alerts'[i].id = alerts[i].id /\ alerts'[i].transaction_id = alerts[i].transaction_id
    /\ \A i \in (Len(alerts) + 1)..Len(alerts') : alerts'[i].status = "pending"

C4_AnalysisInv ==
    \A r \in ReqIds :
        (reqs[r].analysed /\ reqs[r].ai_failed) =>
            /\ reqs[r].ai_score = 0
            /\ reqs[r].total_score = reqs[r].rule_score * RuleFactor
            /\ reqs[r].risk_level = _get_risk_level(reqs[r].total_score)
            /\ InFlight(reqs[r])

C4_AiStep ==
    \A r \in ReqIds :
        reqs[r].pc = "ai" =>
            /\ reqs'[r].pc \in {"ai", "alert_insert", "respond"}
            /\ reqs'[r].pc # "ai" =>
                 /\ reqs'[r].analysed
                 /\ reqs'[r].rule_score = reqs[r].rule_score
                 /\ reqs'[r].violated_rules = reqs[r].violated_rules

C4_AiFailureYieldsZero == [] C4_AnalysisInv /\ [][C4_AiStep]_vars

\* C4 witness: the model call failed for a transaction that violated a rule,
\* and the analysis came back with the rule's score.
C4_Witness ==
    \E r \in ReqIds :
        /\ reqs[r].analysed /\ reqs[r].ai_failed
        /\ reqs[r].rule_score > 0 /\ reqs[r].violated_rules # << >>
        /\ reqs[r].pc = "respond"

\* A rule the evaluator cannot evaluate: its type is none of the five, or its
\* check raises on this transaction and context.
KnownTypes == {"amount", "velocity", "location", "merchant", "time"}
BadRule(rule, transaction, context) ==
    \/ rule.rule_type \notin KnownTypes
    \/ Dispatch(rule, transaction, context).raised

GoodRules(rs, transaction, context) ==
    SelectSeq(rs, LAMBDA rule : ~BadRule(rule, transaction, context))

\* C5: calculate_rule_score does not raise on a store holding rules of an
\* unknown type or rules whose evaluation raises; no such rule is among the
\* violated rules, and the score and the names are those of the same store
\* with these rules taken out.
C5_BadRuleIgnored ==
    probe.done =>
        LET good == GoodRules(probe.rules, probe.transaction, probe.context)
            out == calculate_rule_score(good, probe.transaction, probe.context)
        IN /\ ~probe.raised
           /\ probe.rule_score = out.rule_score
           /\ probe.violated_rules = out.violated_rules
           /\ \A i \in 1..Len(probe.rules) :
                BadRule(probe.rules[i], probe.transaction, probe.context)
                    => ~InSeq(probe.rules[i].name, probe.violated_rules)

\* C5 witness: the store holds a rule of unknown type and a rule whose check
\* raises, in front of a rule the transaction violates, and the score is that
\* rule's.
C5_Witness ==
    /\ probe.done /\ Len(probe.rules) = 3
    /\ probe.rules[1].rule_type \notin KnownTypes
    /\ Dispatch(probe.rules[2], probe.transaction, probe.context).raised
    /\ probe.violated_rules = << probe.rules[3].name >>
    /\ probe.rule_score = probe.rules[3].weight

\* C6: after the alert is stored the broadcast is attempted once and then,
\* whether or not it failed, the notification is attempted once; neither
\* sink step changes the alert store, and the stored alert still carries the
\* request's transaction and scores.
C6_SinkInv ==
    \A r \in ReqIds :
        /\ reqs[r].pc = "broadcast" => reqs[r].broadcasts = 0 /\ reqs[r].emails = 0
        /\ reqs[r].pc = "email" => reqs[r].broadcasts = 1 /\ reqs[r].emails = 0
        /\ (reqs[r].pc = "respond" /\ reqs[r].alert_id # 0)
              => reqs[r].broadcasts = 1 /\ reqs[r].emails = 1
        /\ (InFlight(reqs[r]) /\ reqs[r].alert_id # 0) =>
              /\ reqs[r].alert_id \in AlertIds
              /\ alerts[reqs[r].alert_id].transaction_id = reqs[r].txn.id
              /\ alerts[reqs[r].alert_id].total_score = reqs[r].total_score
              /\ alerts[reqs[r].alert_id].violated_rules = reqs[r].violated_rules

C6_SinkStep ==
    \A r \in ReqIds :
        /\ (reqs[r].pc = "broadcast" /\ reqs'[r] # reqs[r])
              => reqs'[r].pc = "email" /\ alerts' = alerts
        /\ (reqs[r].pc = "email" /\ reqs'[r] # reqs[r])
              => reqs'[r].emails = 1 /\ alerts' = alerts

C6_BothSinksAttempted == [] C6_SinkInv /\ [][C6_SinkStep]_vars

\* C6 witness: the broadcast failed, the notification was attempted after it
\* and failed too, and the alert is in the store.
C6_Witness ==
    \E r \in ReqIds :
        /\ reqs[r].pc = "respond" /\ reqs[r].broadcast_failed
        /\ reqs[r].emails = 1 /\ reqs[r].email_result = "False"
        /\ AlertsOf(reqs[r].txn.id) = {reqs[r].alert_id}

\* C7: each sink is called at most once per request, a request in which a
\* sink failed goes on, no sink step ends a request with an error, and the
\* request ends by returning the transaction.
C7_SinkFailureInv ==
    \A r \in ReqIds :
        /\ reqs[r].broadcasts <= 1 /\ reqs[r].emails <= 1
        /\ (reqs[r].broadcast_failed \/ reqs[r].email_raised)
              => reqs[r].pc \in {"email", "respond"}

C7_SinkFailureStep ==
    \A r \in ReqIds :
        /\ reqs[r].pc \in {"broadcast", "email"}
              => reqs'[r].pc \in {"broadcast", "email", "respond"} /\ reqs'[r].result = ""
        /\ (reqs[r].pc = "respond" /\ reqs'[r] # reqs[r])
              => reqs'[r].pc = "done" /\ reqs'[r].result = "returned"

C7_SinkFailureContained == [] C7_SinkFailureInv /\ [][C7_SinkFailureStep]_vars

\* C7 witness: the live notification raised after a broadcast that went
\* through, each sink was called once, and the request is about to return.
C7_Witness ==
    \E r \in ReqIds :
        /\ reqs[r].pc = "respond" /\ reqs[r].email_raised /\ ~reqs[r].broadcast_failed
        /\ reqs[r].broadcasts = 1 /\ reqs[r].emails = 1

\* C8: a request whose transaction insert succeeded does not end with an
\* error.
C8_StoredThenReturned ==
    \A r \in ReqIds : reqs[r].stored => reqs[r].result # "error"

TxnIds == {transactions[i].id : i \in 1..Len(transactions)}

\* C9: a request whose transaction insert failed ends with an error, leaves no
\* transaction and no alert behind and takes no further step; a request is
\* past the insert only with its transaction in the store.
C9_NothingInv ==
    \A r \in ReqIds :
        /\ InFlight(reqs[r]) => reqs[r].stored /\ r \in TxnIds
        /\ (reqs[r].pc = "failed" /\ ~reqs[r].stored) =>
              /\ reqs[r].result = "error"
              /\ r \notin TxnIds
              /\ AlertsOf(r) = {} /\ reqs[r].alert_id = 0
        /\ ~reqs[r].stored =>
              /\ ~reqs[r].analysed /\ reqs[r].rule_score = 0 /\ reqs[r].ai_score = 0
              /\ reqs[r].broadcasts = 0 /\ reqs[r].emails = 0

C9_NothingStep ==
    \A r \in ReqIds :
        /\ (reqs[r].pc = "idle" /\ reqs'[r].pc # "idle") =>
              \/ reqs'[r].pc = "count" /\ reqs'[r].stored /\ Len(transactions') = Len(transactions) + 1
              \/ reqs'[r].pc = "failed" /\ transactions' = transactions
        /\ reqs[r].pc = "failed" => reqs'[r] = reqs[r]

C9_InsertFailureStopsAll == [] C9_NothingInv /\ [][C9_NothingStep]_vars

\* C9 witness: a request failed at its transaction insert while an active
\* rule was in the store, and both collections are still empty.
C9_Witness ==
    \E r \in ReqIds :
        /\ reqs[r].pc = "failed" /\ ~reqs[r].stored /\ reqs[r].result = "error"
        /\ Len(rules) > 0 /\ rules[1].active
        /\ transactions = << >> /\ alerts = << >>

\* The sum of the contributions of the violated rules among the first n
\* active rules of a store, and their names in store order.
RECURSIVE SumViolated(_, _, _, _)
SumViolated(rs, n, transaction, context) ==
    IF n = 0 THEN 0
    ELSE SumViolated(rs, n - 1, transaction, context)
         + (IF evaluate(rs[n], transaction, context).violated
            THEN evaluate(rs[n], transaction, context).score ELSE 0)

ViolatedRules(rs, transaction, context) ==
    SelectSeq(rs, LAMBDA rule : rule.active /\ evaluate(rule, transaction, context).violated)

LevelOf(score) ==
    { l \in RiskLevels :
        \/ l = "CRITICAL" /\ score >= 8000
        \/ l = "HIGH" /\ score >= 6000 /\ score < 8000
        \/ l = "MEDIUM" /\ score >= 4000 /\ score < 6000
        \/ l = "LOW" /\ score >= 2000 /\ score < 4000
        \/ l = "SAFE" /\ score < 2000 }

C11_RiskLevelBands ==
    probe.done => LevelOf(probe.total_score) = {probe.risk_level}

\* C11 witness: analyze_transaction returned a total_score of exactly 0.8,
\* from a rule_score of 0.5 and an ai_score of 1.0, with the level CRITICAL.
C11_Witness ==
    /\ probe.done /\ probe.call = "analyze_transaction"
    /\ probe.rule_score = 500 /\ probe.ai_score = 1000
    /\ probe.total_score = 8000 /\ probe.risk_level = "CRITICAL"

\* C12: total_score is 0.4 * rule_score + 0.6 * ai_score; raising either
\* input with the other held fixed never lowers it, and it lies in [0, 1]
\* for inputs in [0, 1].
C12_TotalMonotone ==
    (probe.done /\ probe.call = "analyze_transaction") =>
        /\ probe.total_score = 4 * probe.rule_score + 6 * probe.ai_score
        /\ probe.total_score >= 0 /\ probe.total_score <= 10000
        /\ \A higher \in ScoreGrid :
              /\ higher >= probe.rule_score =>
                    TotalScore(higher, probe.ai_score) >= probe.total_score
              /\ higher >= probe.ai_score =>
                    TotalScore(probe.rule_score, higher) >= probe.total_score

\* C12 witness: an analysis of two inputs strictly inside (0, 1), each of
\* which can still be raised.
C12_Witness ==
    /\ probe.done /\ probe.call = "analyze_transaction"
    /\ probe.rule_score = 333 /\ probe.ai_score = 499
    /\ probe.total_score = 4326 /\ probe.risk_level = "MEDIUM"

\* C13: delivering an alert to a user's sessions never raises, whatever
\* connect, authenticate and disconnect events run between two emits.
C13_DeliveryNeverRaises ==
    \A d \in SendIds : ~sends[d].raised

\* C18: the two registry maps agree: a session id is in connected_clients[u]
\* exactly when session_to_user maps it to u, no user has an empty set, and
\* a disconnected session id is in no user's set.
C18_RegistryMapsAgree ==
    /\ \A u \in Keys(connected_clients) :
          /\ connected_clients[u] # {}
          /\ \A sid \in connected_clients[u] :
                sid \in Keys(session_to_user) /\ session_to_user[sid] = u
    /\ \A sid \in Keys(session_to_user) :
          /\ session_to_user[sid] \in Keys(connected_clients)
          /\ sid \in connected_clients[session_to_user[sid]]
    /\ \A sid \in Sids :
          clients[sid] = "closed" =>
              \A u \in Keys(connected_clients) : sid \notin connected_clients[u]

\* Where the transaction of request r stands in the store.
IndexOf(r) == CHOOSE j \in 1..Len(transactions) : transactions[j].id = r

\* C14: the context of an analysis holds at most 10 locations in
\* user_locations, each the location of a transaction of the same user that
\* was created before the transaction under analysis.
C14_LocationsArePrior ==
    \A r \in ReqIds :
        reqs[r].pc = "rules" =>
            /\ Len(reqs[r].user_locations) <= 10
            /\ \A i \in 1..Len(reqs[r].user_locations) :
                  \E j \in 1..(IndexOf(r) - 1) :
                      /\ transactions[j].user_id = reqs[r].txn.user_id
                      /\ transactions[j].location = reqs[r].user_locations[i]

\* C15: the recent_transaction_count of an analysis is the number of the
\* user's stored transactions whose timestamp lies in the hour that ends at
\* the timestamp of the transaction under analysis, whatever the wall clock
\* shows when the count is taken.
C15_CountUsesOwnTimestamp ==
    \A r \in ReqIds :
        reqs[r].pc = "distinct" =>
            reqs[r].recent_transaction_count =
                Cardinality({j \in 1..Len(transactions) :
                    /\ transactions[j].user_id = reqs[r].txn.user_id
                    /\ transactions[j].timestamp >= reqs[r].txn.timestamp - 1
                    /\ transactions[j].timestamp <= reqs[r].txn.timestamp})

\* C16: an analysis scores the rule store as it is when the rules are read:
\* the score and the names are those of the stored rules that are active at
\* that moment, so a rule that is inactive or was deleted contributes
\* nothing, whatever the transaction holds.
C16_RuleStep ==
    \A r \in ReqIds :
        (reqs[r].pc = "rules" /\ reqs'[r].pc = "ai") =>
            LET stored == SelectSeq(rules, LAMBDA rule : rule.active)
                out == calculate_rule_score(stored, reqs[r].txn, ContextOf(reqs[r]))
            IN /\ reqs'[r].rule_score = out.rule_score
               /\ reqs'[r].violated_rules = out.violated_rules
               /\ \A i \in 1..Len(reqs'[r].violated_rules) :
                     \E k \in 1..Len(rules) :
                         rules[k].active /\ rules[k].name = reqs'[r].violated_rules[i]

C16_InactiveContributesNothing == [][C16_RuleStep]_vars

\* C16 witness: the rules have been scored for a transaction that the one
\* stored rule, now inactive, would flag; the score is 0 and no rule is named.
C16_Witness ==
    \E r \in ReqIds :
        /\ reqs[r].pc = "ai" /\ Len(rules) = 1 /\ ~rules[1].active
        /\ Dispatch(rules[1], reqs[r].txn, ContextOf(reqs[r])).violated
        /\ reqs[r].rule_score = 0 /\ reqs[r].violated_rules = << >>

\* C17: the status of every stored alert is one of pending, investigating,
\* resolved, false_positive.
C17_StatusInSet ==
    \A i \in AlertIds :
        alerts[i].status \in {"pending", "investigating", "resolved", "false_positive"}

====
